---- MODULE Spec2Model ----
(***************************************************************************)
(* Model of ObjectPool<T, Allocator> of src/Memory.cc: a pool that hands   *)
(* out shared_ptr<T> handles to objects constructed in slots of chunks it  *)
(* obtains from an allocator, and takes the slot back when the last owner  *)
(* of a handle releases it.                                                *)
(*                                                                         *)
(* Addresses are slot numbers 0 .. HeapSize-1 (one unit = sizeof(T)).      *)
(* The allocator behind m_allocator is the environment: allocate(n)        *)
(* returns a block of n slots disjoint from the blocks it has handed out   *)
(* and not yet taken back, or throws std::bad_alloc.  The two std::vector  *)
(* members are taken to grow without failure.  The assert of the           *)
(* destructor is compiled in (no NDEBUG).  The pool is used by one thread. *)
(***************************************************************************)
EXTENDS Integers, Sequences, FiniteSets, Bags, TLC

\* ---- bounds of the model ------------------------------------------------
\* The pool is explored under two profiles of its caller.
\* "wide": few objects at once, handles copied and released in any order;
\* a second chunk comes from an acquireObject whose constructor throws.
\* "deep": enough objects at once to reach the third chunk; the caller holds
\* its handles in nested scopes, so they are released in reverse order.
WideHeap == 16       \* slots of raw memory the allocator can hand out
WideLive == 5        \* handles alive at once
WideShared == 1      \* extra owners (copies of a shared_ptr) alive at once
DeepHeap == 36
DeepLive == 16
DeepShared == 0
LifoDepth == 2       \* releases in a row whose re-issue order is followed
\* "move": two pool objects that are moved into one another.
MoveHeap == 15
MoveLive == 2
MaxMoves == 2        \* move operations in one run

\* ---- program constants --------------------------------------------------
ms_initialChunkSize == 5

\* No address: the value of an address field that holds none.
NoAddr == 0 - 1

VARIABLES
    m_pool,          \* std::vector<T*>: first address of every chunk, in order
    m_freeObjects,   \* std::vector<T*>: addresses of the free slots
    m_newChunkSize,  \* size_t: size of the next chunk
    heap,            \* allocator: blocks handed out and not taken back
    allocLog,        \* every successful m_allocator.allocate, in order
    deallocLog,      \* every m_allocator.deallocate, in order
    handles,         \* bag of live shared_ptr control blocks [addr, owners]
    pc,              \* "alive", "destroyed" (destructor ran), "aborted" (assert)
    last,            \* the operation that produced this state
    failed,          \* slot of a constructor failure not yet followed by a handle,
                     \* followed over at most one release
    profile,         \* "wide" or "deep"
    scope,           \* deep: addresses of the live handles, innermost scope last
    lifo,            \* addresses released in a row, and those issued right after
    pools            \* the pool objects of a caller that moves pools

vars == <<m_pool, m_freeObjects, m_newChunkSize, heap, allocLog, deallocLog,
          handles, pc, last, failed, profile, scope, lifo, pools>>

HeapSize == IF profile = "deep" THEN DeepHeap
            ELSE IF profile = "move" THEN MoveHeap ELSE WideHeap

MaxLive == IF profile = "deep" THEN DeepLive ELSE WideLive

MaxShared == IF profile = "deep" THEN DeepShared ELSE WideShared

\* ---- helpers ------------------------------------------------------------
Range(s) == {s[i] : i \in 1..Len(s)}

Back(s) == s[Len(s)]

PopBack(s) == SubSeq(s, 1, Len(s) - 1)

Pow2(n) == 2 ^ n

\* std::iota(first, last, value): value, value+1, ...
Iota(first, n) == [i \in 1..n |-> first + i - 1]

Block(base, size) == [base |-> base, size |-> size]

Slots(blk) == blk.base .. (blk.base + blk.size - 1)

\* The pool object (*this) as a value.
This == [m_pool |-> m_pool, m_freeObjects |-> m_freeObjects,
         m_newChunkSize |-> m_newChunkSize]

\* ---- the allocator ------------------------------------------------------
\* Addresses at which a block of n slots overlaps no block currently handed
\* out.
Fits(n) ==
    {b \in 0..(HeapSize - n) :
        \A blk \in heap : Slots(Block(b, n)) \cap Slots(blk) = {}}

\* Addresses m_allocator.allocate(n) may return.  Of the addresses that fit
\* the model lets the allocator return the lowest or the highest: chunks are
\* then adjacent or apart, in ascending or descending address order.
Allocatable(n) ==
    {b \in Fits(n) : \/ \A c \in Fits(n) : b <= c
                     \/ \A c \in Fits(n) : b >= c}

\* ---- ObjectPool::addChunk ----------------------------------------------
\* The size addChunk passes to allocate.
Request(P) == P.m_newChunkSize

\* The pool after addChunk, when allocate returned firstNewObject.
addChunkNoDoubling(P, firstNewObject) ==
    [m_pool |-> Append(P.m_pool, firstNewObject),
     m_freeObjects |-> P.m_freeObjects \o Iota(firstNewObject, P.m_newChunkSize),
     m_newChunkSize |-> P.m_newChunkSize]

addChunkShort(P, firstNewObject) ==
    [m_pool |-> Append(P.m_pool, firstNewObject),
     m_freeObjects |-> P.m_freeObjects
                       \o Iota(firstNewObject, P.m_newChunkSize - 1),
     m_newChunkSize |-> P.m_newChunkSize * 2]

addChunk(P, firstNewObject) ==
    [m_pool |-> Append(P.m_pool, firstNewObject),
     m_freeObjects |-> P.m_freeObjects \o Iota(firstNewObject, P.m_newChunkSize),
     m_newChunkSize |-> P.m_newChunkSize * 2]

\* Line 59 throws std::bad_alloc: lines 60-69 do not run.
AfterBadAllocRecorded(P) ==
    [P EXCEPT !.m_pool = Append(@, NoAddr), !.m_newChunkSize = @ * 2]

AfterBadAlloc(P) == P

\* ---- ObjectPool::acquireObject -----------------------------------------
\* Line 76: the pool grows exactly when no slot is free.
MustGrowEarly(P) == Len(P.m_freeObjects) <= 1

MustGrow(P) == P.m_freeObjects = <<>>

\* Line 79: the slot taken.
ObjectFront(free) == free[1]

Object(free) == Back(free)

\* Line 87: the free list after a successful construction.
TakenKeep(free) == free

Taken(free) == PopBack(free)

\* Line 87 is not reached when T's constructor throws at line 84.
AfterThrowPop(free) == PopBack(free)

AfterThrow(free) == free

\* Lines 90-95: the deleter of the shared_ptr, run by the last owner.
DeleterFront(free, object) == <<object>> \o free

DeleterTwice(free, object) == Append(Append(free, object), object)

Deleter(free, object) == Append(free, object)

\* shared_ptr: the deleter runs when the use count drops to zero.
RunsDeleterAlways(owners) == TRUE

RunsDeleter(owners) == owners = 0

\* ---- ObjectPool::~ObjectPool -------------------------------------------
\* Line 100: the expression of the assert.
TeardownCheckLinear(P) ==
    Len(P.m_freeObjects) = ms_initialChunkSize * Len(P.m_pool)

TeardownCheck(P) ==
    Len(P.m_freeObjects) = ms_initialChunkSize * (Pow2(Len(P.m_pool)) - 1)

\* Lines 102-107: the deallocate calls, in order, with their sizes.
DeallocationsSameSize(pool) ==
    [i \in 1..Len(pool) |-> Block(pool[i], ms_initialChunkSize)]

Deallocations(pool) ==
    [i \in 1..Len(pool) |-> Block(pool[i], ms_initialChunkSize * Pow2(i - 1))]

\* ---- derived state ------------------------------------------------------
RECURSIVE SumOver(_, _)
SumOver(S, f) ==
    IF S = {} THEN 0
    ELSE LET x == CHOOSE y \in S : TRUE IN f[x] + SumOver(S \ {x}, f)

Handle(addr, owners) == [addr |-> addr, owners |-> owners]

One(e) == SetToBag({e})

Live == BagToSet(handles)

LiveCount == BagCardinality(handles)

LiveAddrs == {e.addr : e \in Live}

\* Chunks of the pool and the slots they hold.
PoolChunks == {blk \in heap : blk.base \in Range(m_pool)}

Capacity == SumOver(PoolChunks, [blk \in PoolChunks |-> blk.size])

Shared == SumOver(Live, [e \in Live |-> CopiesIn(e, handles) * (e.owners - 1)])

Count(s, a) == Cardinality({i \in 1..Len(s) : s[i] = a})

Op(op, addr, grew, prev, pending) ==
    [op |-> op, addr |-> addr, grew |-> grew, prev |-> prev,
     pending |-> pending]

NoFailure == [slot |-> NoAddr, released |-> FALSE]

\* A failure is followed until the operation after the first release.
Forget(f) == IF f.released THEN NoFailure ELSE f

\* The address released by the operation that produced this state.
JustReleased == IF last.op = "release" THEN last.addr ELSE NoAddr

\* The address a when the operation that produced this state dropped an
\* owner of the handle at a and left other owners.
JustDropped(a) == IF last.op = "drop" /\ last.addr = a THEN a ELSE NoAddr

\* Addresses released in a row (the last LifoDepth of them), then the
\* addresses issued by the acquireObject calls that follow them directly.
\* Any other operation ends the run that is followed.
NoLifo == [released |-> <<>>, issued |-> <<>>]

LastOf(s) == IF Len(s) > LifoDepth THEN SubSeq(s, Len(s) - LifoDepth + 1, Len(s))
             ELSE s

LifoAfter(l, o) ==
    IF o.op = "release"
    THEN IF l.issued = <<>>
         THEN [released |-> LastOf(Append(l.released, o.addr)), issued |-> <<>>]
         ELSE [released |-> <<o.addr>>, issued |-> <<>>]
    ELSE IF o.op = "acquire"
    THEN IF Len(l.issued) < Len(l.released)
         THEN [l EXCEPT !.issued = Append(@, o.addr)]
         ELSE NoLifo
    ELSE NoLifo

\* What an operation on the pool leaves alone.
Frame == lifo' = LifoAfter(lifo, last') /\ UNCHANGED pools

\* ---- initial state: a default-constructed pool -------------------------
\* Both constructors (lines 15 and 46-51) leave the members at their default
\* initializers; they differ in m_allocator only.
InitEager ==
    /\ m_pool = <<0>>
    /\ m_freeObjects = Iota(0, ms_initialChunkSize)
    /\ m_newChunkSize = ms_initialChunkSize * 2
    /\ heap = {Block(0, ms_initialChunkSize)}
    /\ allocLog = <<Block(0, ms_initialChunkSize)>>
    /\ deallocLog = <<>>
    /\ handles = EmptyBag
    /\ pc = "alive"
    /\ last = Op("none", NoAddr, FALSE, NoAddr, NoFailure)
    /\ failed = NoFailure
    /\ profile \in {"wide", "deep"}
    /\ scope = <<>>
    /\ lifo = NoLifo
    /\ pools = <<>>

Init ==
    /\ m_pool = <<>>
    /\ m_freeObjects = <<>>
    /\ m_newChunkSize = ms_initialChunkSize
    /\ heap = {}
    /\ allocLog = <<>>
    /\ deallocLog = <<>>
    /\ handles = EmptyBag
    /\ pc = "alive"
    /\ last = Op("none", NoAddr, FALSE, NoAddr, NoFailure)
    /\ failed = NoFailure
    /\ profile \in {"wide", "deep"}
    /\ scope = <<>>
    /\ lifo = NoLifo
    /\ pools = <<>>

\* ---- acquireObject ------------------------------------------------------
\* allocate throws inside addChunk (line 59): the lines after it do not run.
AcquireBadAlloc ==
    /\ pc = "alive"
    /\ MustGrow(This)
    /\ m_pool' = AfterBadAlloc(This).m_pool
    /\ m_freeObjects' = AfterBadAlloc(This).m_freeObjects
    /\ m_newChunkSize' = AfterBadAlloc(This).m_newChunkSize
    /\ last' = Op("oom", NoAddr, FALSE, JustReleased, NoFailure)
    /\ failed' = Forget(failed)
    /\ UNCHANGED <<heap, allocLog, deallocLog, handles, pc, profile, scope>>
    /\ Frame

\* The pool after line 76.
GrownAlways(P, first) == addChunk(P, first)

Grown(P, first) == IF MustGrow(P) THEN addChunk(P, first) ELSE P

Bases == IF MustGrow(This) THEN Allocatable(Request(This)) ELSE {NoAddr}

AfterLine76(first) ==
    /\ m_pool' = Grown(This, first).m_pool
    /\ m_newChunkSize' = Grown(This, first).m_newChunkSize
    /\ heap' = IF MustGrow(This)
               THEN heap \cup {Block(first, Request(This))} ELSE heap
    /\ allocLog' = IF MustGrow(This)
                   THEN Append(allocLog, Block(first, Request(This)))
                   ELSE allocLog

\* T's constructor throws (line 84): lines 87-95 do not run.
AcquireThrow ==
    /\ pc = "alive"
    /\ \E first \in Bases :
        LET free == Grown(This, first).m_freeObjects IN
        /\ AfterLine76(first)
        /\ m_freeObjects' = AfterThrow(free)
        /\ last' = Op("throw", Object(free), MustGrow(This), JustReleased,
                      NoFailure)
        /\ failed' = [slot |-> Object(free), released |-> FALSE]
    /\ UNCHANGED <<deallocLog, handles, pc, profile, scope>>
    /\ Frame

\* acquireObject returns a handle.
AcquireOk ==
    /\ pc = "alive"
    /\ LiveCount < MaxLive
    /\ \E first \in Bases :
        LET free == Grown(This, first).m_freeObjects IN
        /\ AfterLine76(first)
        /\ m_freeObjects' = Taken(free)
        /\ handles' = handles (+) One(Handle(Object(free), 1))
        /\ last' = Op("acquire", Object(free), MustGrow(This), JustReleased,
                      failed)
        /\ failed' = NoFailure
        /\ scope' = IF profile = "deep" THEN Append(scope, Object(free))
                    ELSE scope
    /\ UNCHANGED <<deallocLog, pc, profile>>
    /\ Frame

acquireObject == AcquireBadAlloc \/ AcquireThrow \/ AcquireOk

\* ---- the handle: a std::shared_ptr<T> with the deleter of lines 90-95 ---
\* An owner copies the shared_ptr.
CopyHandle(e) ==
    /\ pc = "alive"
    /\ e \in Live
    /\ Shared < MaxShared
    /\ handles' = (handles (-) One(e)) (+) One(Handle(e.addr, e.owners + 1))
    /\ last' = Op("copy", e.addr, FALSE, NoAddr, NoFailure)
    /\ failed' = Forget(failed)
    /\ UNCHANGED <<m_pool, m_freeObjects, m_newChunkSize, heap, allocLog,
                   deallocLog, pc, profile, scope>>
    /\ Frame

\* An owner drops the shared_ptr; the last one runs the deleter.
DropHandle(e) ==
    /\ pc = "alive"
    /\ e \in Live
    /\ profile = "deep" /\ e.owners = 1 => e.addr = Back(scope)
    /\ LET left == e.owners - 1
           run == RunsDeleter(left)
       IN
        /\ handles' = IF left = 0 THEN handles (-) One(e)
                      ELSE (handles (-) One(e)) (+) One(Handle(e.addr, left))
        /\ m_freeObjects' = IF run THEN Deleter(m_freeObjects, e.addr)
                            ELSE m_freeObjects
        /\ last' = Op(IF left = 0 THEN "release" ELSE "drop", e.addr, FALSE,
                      IF left = 0 THEN JustDropped(e.addr) ELSE NoAddr,
                      NoFailure)
        /\ failed' = IF left = 0 /\ failed.slot # NoAddr /\ ~failed.released
                     THEN [failed EXCEPT !.released = TRUE]
                     ELSE Forget(failed)
        /\ scope' = IF left = 0 /\ profile = "deep" THEN PopBack(scope)
                    ELSE scope
    /\ UNCHANGED <<m_pool, m_newChunkSize, heap, allocLog, deallocLog, pc,
                   profile>>
    /\ Frame

\* ---- ~ObjectPool --------------------------------------------------------
Destructor ==
    /\ pc = "alive"
    /\ IF TeardownCheck(This)
       THEN /\ deallocLog' = deallocLog \o Deallocations(m_pool)
            /\ heap' = heap \ {blk \in heap : blk.base \in Range(m_pool)}
            /\ m_pool' = <<>>
            /\ pc' = "destroyed"
       ELSE /\ pc' = "aborted"
            /\ UNCHANGED <<deallocLog, heap, m_pool>>
    /\ last' = Op("destroy", NoAddr, FALSE, NoAddr, NoFailure)
    /\ failed' = NoFailure
    /\ UNCHANGED <<m_freeObjects, m_newChunkSize, allocLog, handles, profile,
                   scope>>
    /\ Frame

Next ==
    \/ acquireObject
    \/ \E e \in Live : CopyHandle(e)
    \/ \E e \in Live : DropHandle(e)
    \/ Destructor

Spec == Init /\ [][Next]_vars

\* ================= two pool objects and the move operations ==============
\* pools[i] is the pool object i: its data members, where it is in its
\* lifetime, and its history: "fresh" (never moved from or into),
\* "movedFrom" (was fresh, owned a chunk and had no handle outstanding when
\* it was moved from, and took part in no move since), or "moved"; and the
\* number of times it was moved from.
PoolIds == {1, 2}

Members(p) == [m_pool |-> p.m_pool, m_freeObjects |-> p.m_freeObjects,
               m_newChunkSize |-> p.m_newChunkSize]

With(p, P) == [p EXCEPT !.m_pool = P.m_pool,
                        !.m_freeObjects = P.m_freeObjects,
                        !.m_newChunkSize = P.m_newChunkSize]

\* Lines 15, 34-39: the members of a default-constructed pool.
Unborn == [m_pool |-> <<>>, m_freeObjects |-> <<>>,
           m_newChunkSize |-> ms_initialChunkSize,
           life |-> "unborn", history |-> "fresh", moves |-> 0]

Constructed == [Unborn EXCEPT !.life = "alive"]

\* Lines 20-21: the defaulted move operations act member by member.  The
\* target takes the vectors of the source and a copy of its m_newChunkSize.
MoveTarget(dst, src) == [With(dst, Members(src)) EXCEPT !.history = "moved"]

\* The source: a moved-from std::vector is empty; a size_t is left as it
\* was.
MoveSource(src) ==
    [src EXCEPT !.m_pool = <<>>,
                !.m_freeObjects = <<>>,
                !.moves = @ + 1,
                !.history = IF src.history = "fresh" /\ src.m_pool # <<>>
                               /\ handles = EmptyBag
                            THEN "movedFrom" ELSE "moved"]

\* The handle of an object of pool this: the deleter captured this (line
\* 90).  epoch: how often that pool had been moved from when it issued the
\* handle.
MoveHandle(addr, this, epoch) ==
    [addr |-> addr, owners |-> 1, this |-> this, epoch |-> epoch]

\* The handle was issued before its pool was moved from.
Stale(e) == e.epoch < pools[e.this].moves

\* The other pool object.
Other(i) == 3 - i

\* pool: the pool operated on (the target of a move; of a release, the pool
\* the deleter captured); before: the source of a move as it was before the
\* move; stale: the handle released was issued before a move.
MoveOp(op, pool, addr, grew, before) ==
    [op |-> op, pool |-> pool, addr |-> addr, grew |-> grew,
     before |-> before, stale |-> FALSE]

\* Neither a failed assert (line 100) nor undefined behaviour has ended the
\* program.
Running ==
    /\ last.op # "crash"
    /\ \A i \in PoolIds : pools[i].life # "aborted"

Alive(i) == Running /\ pools[i].life = "alive"

Movable(i) == Alive(i) /\ pools[1].moves + pools[2].moves < MaxMoves

\* The chunk an address lies in, while that chunk is allocated.
ChunkOf(addr) == {blk \in heap : addr \in Slots(blk)}

\* The pools whose m_pool holds the chunk of an address.
Owners(addr) ==
    {i \in PoolIds : /\ pools[i].life = "alive"
                     /\ \E blk \in ChunkOf(addr) :
                            blk.base \in Range(pools[i].m_pool)}

MoveInit ==
    /\ m_pool = <<>>
    /\ m_freeObjects = <<>>
    /\ m_newChunkSize = ms_initialChunkSize
    /\ heap = {}
    /\ allocLog = <<>>
    /\ deallocLog = <<>>
    /\ handles = EmptyBag
    /\ pc = "alive"
    /\ last = MoveOp("none", 1, NoAddr, FALSE, Constructed)
    /\ failed = NoFailure
    /\ profile = "move"
    /\ scope = <<>>
    /\ lifo = NoLifo
    /\ pools = [i \in PoolIds |-> IF i = 1 THEN Constructed ELSE Unborn]

\* The members of the single pool of Spec are not used here.
MoveFrame ==
    UNCHANGED <<m_pool, m_freeObjects, m_newChunkSize, pc, failed, profile,
                scope, lifo>>

\* ObjectPool q;
DefaultConstruct(j) ==
    /\ Running
    /\ pools[j].life = "unborn"
    /\ pools' = [pools EXCEPT ![j] = Constructed]
    /\ last' = MoveOp("construct", j, NoAddr, FALSE, Unborn)
    /\ UNCHANGED <<heap, allocLog, deallocLog, handles>>
    /\ MoveFrame

\* ObjectPool q { std::move(p) };  (line 20)
MoveConstruct(i, j) ==
    /\ Movable(i)
    /\ pools[j].life = "unborn"
    /\ pools' = [pools EXCEPT ![j] = MoveTarget(Constructed, pools[i]),
                              ![i] = MoveSource(pools[i])]
    /\ last' = MoveOp("moveConstruct", j, NoAddr, FALSE, pools[i])
    /\ UNCHANGED <<heap, allocLog, deallocLog, handles>>
    /\ MoveFrame

\* q = std::move(p);  (line 21).  The vectors q held are destroyed: the
\* chunk pointers in them are dropped, their chunks are not deallocated.
MoveAssign(i, j) ==
    /\ Movable(i)
    /\ Alive(j)
    /\ i # j
    /\ pools' = [pools EXCEPT ![j] = MoveTarget(pools[j], pools[i]),
                              ![i] = MoveSource(pools[i])]
    /\ last' = MoveOp("moveAssign", j, NoAddr, FALSE, pools[i])
    /\ UNCHANGED <<heap, allocLog, deallocLog, handles>>
    /\ MoveFrame

\* pools[i].acquireObject(): allocate throws (line 59).
MoveAcquireBadAlloc(i) ==
    /\ Alive(i)
    /\ MustGrow(Members(pools[i]))
    /\ pools' = [pools EXCEPT ![i] = With(@, AfterBadAlloc(Members(@)))]
    /\ last' = MoveOp("oom", i, NoAddr, FALSE, Unborn)
    /\ UNCHANGED <<heap, allocLog, deallocLog, handles>>
    /\ MoveFrame

MoveBases(P) == IF MustGrow(P) THEN Allocatable(Request(P)) ELSE {NoAddr}

MoveAfterLine76(P, first) ==
    /\ heap' = IF MustGrow(P) THEN heap \cup {Block(first, Request(P))}
               ELSE heap
    /\ allocLog' = IF MustGrow(P)
                   THEN Append(allocLog, Block(first, Request(P)))
                   ELSE allocLog

\* pools[i].acquireObject(): T's constructor throws (line 84).
MoveAcquireThrow(i) ==
    /\ Alive(i)
    /\ LET P == Members(pools[i]) IN
       \E first \in MoveBases(P) :
        LET G == Grown(P, first) IN
        /\ MoveAfterLine76(P, first)
        /\ pools' = [pools EXCEPT ![i] =
               With(@, [G EXCEPT !.m_freeObjects = AfterThrow(@)])]
        /\ last' = MoveOp("throw", i, Object(G.m_freeObjects), MustGrow(P),
                          Unborn)
    /\ UNCHANGED <<deallocLog, handles>>
    /\ MoveFrame

\* pools[i].acquireObject() returns a handle.
MoveAcquireOk(i) ==
    /\ Alive(i)
    /\ LiveCount < MoveLive
    /\ LET P == Members(pools[i]) IN
       \E first \in MoveBases(P) :
        LET G == Grown(P, first) IN
        /\ MoveAfterLine76(P, first)
        /\ pools' = [pools EXCEPT ![i] =
               With(@, [G EXCEPT !.m_freeObjects = Taken(@)])]
        /\ handles' = handles (+) One(MoveHandle(Object(G.m_freeObjects), i,
                                               pools[i].moves))
        /\ last' = MoveOp("acquire", i, Object(G.m_freeObjects), MustGrow(P),
                          Unborn)
    /\ UNCHANGED deallocLog
    /\ MoveFrame

MoveAcquire(i) ==
    MoveAcquireBadAlloc(i) \/ MoveAcquireThrow(i) \/ MoveAcquireOk(i)

\* The last owner drops the handle e: the deleter (lines 90-95) destroys
\* the object and pushes its address onto m_freeObjects of the pool object
\* it captured.
MoveRelease(e) ==
    /\ Running
    /\ e \in Live
    /\ pools[e.this].life = "alive"
    /\ ChunkOf(e.addr) # {}
    /\ handles' = handles (-) One(e)
    /\ pools' = [pools EXCEPT ![e.this].m_freeObjects = Deleter(@, e.addr)]
    /\ last' = [MoveOp("release", e.this, e.addr, FALSE, Unborn)
                  EXCEPT !.stale = Stale(e)]
    /\ UNCHANGED <<heap, allocLog, deallocLog>>
    /\ MoveFrame

\* The deleter runs after the pool object it captured was destroyed, or
\* after the chunk of the object was deallocated: undefined behaviour.  The
\* program crashes, or the writes land in memory nothing reads again.
MoveReleaseDangling(e) ==
    /\ Running
    /\ e \in Live
    /\ pools[e.this].life # "alive" \/ ChunkOf(e.addr) = {}
    /\ handles' = handles (-) One(e)
    /\ \E outcome \in {"crash", "dangling"} :
        /\ last' = [MoveOp(outcome, e.this, e.addr, FALSE, Unborn)
                      EXCEPT !.stale = Stale(e)]
        /\ pools' = IF outcome = "dangling" /\ pools[e.this].life = "alive"
                    THEN [pools EXCEPT
                            ![e.this].m_freeObjects = Deleter(@, e.addr)]
                    ELSE pools
    /\ UNCHANGED <<heap, allocLog, deallocLog>>
    /\ MoveFrame

\* ~ObjectPool of pools[i] (lines 98-110).
MoveDestructor(i) ==
    /\ Alive(i)
    /\ IF TeardownCheck(Members(pools[i]))
       THEN /\ deallocLog' = deallocLog \o Deallocations(pools[i].m_pool)
            /\ heap' = heap \ {blk \in heap :
                                 blk.base \in Range(pools[i].m_pool)}
            /\ pools' = [pools EXCEPT ![i].m_pool = <<>>,
                                      ![i].life = "destroyed"]
       ELSE /\ pools' = [pools EXCEPT ![i].life = "aborted"]
            /\ UNCHANGED <<deallocLog, heap>>
    /\ last' = MoveOp("destroy", i, NoAddr, FALSE, Unborn)
    /\ UNCHANGED <<allocLog, handles>>
    /\ MoveFrame

MoveNext ==
    \/ \E j \in PoolIds : DefaultConstruct(j)
    \/ \E i, j \in PoolIds : MoveConstruct(i, j)
    \/ \E i, j \in PoolIds : MoveAssign(i, j)
    \/ \E i \in PoolIds : MoveAcquire(i)
    \/ \E e \in Live : MoveRelease(e)
    \/ \E e \in Live : MoveReleaseDangling(e)
    \/ \E i \in PoolIds : MoveDestructor(i)

SpecMove == MoveInit /\ [][MoveNext]_vars

\* ======================== the claims =====================================

\* C1. Capacity conservation: while the pool is in use, the number of free
\* slots plus the number of live objects equals the sum of the capacities
\* of the chunks in m_pool.
C1_CapacityConservation ==
    pc = "alive" => Len(m_freeObjects) + LiveCount = Capacity

C1_Witness ==
    /\ pc = "alive"
    /\ Len(m_pool) = 2
    /\ last.op = "release"
    /\ LiveCount >= 2
    /\ Len(m_freeObjects) + LiveCount = 15

\* C2. No-alias: two handles that are live at the same time refer to
\* distinct slot addresses.
C2_NoAlias ==
    \A e1 \in Live :
        /\ CopiesIn(e1, handles) = 1
        /\ \A e2 \in Live : e1.addr = e2.addr => e1 = e2

C2_Witness ==
    /\ LiveCount = 6
    /\ last.op = "acquire"
    /\ last.prev = last.addr
    /\ Cardinality(LiveAddrs) = 6

\* C3. Free-slot set: every address in m_freeObjects lies within exactly one
\* chunk of the pool, occurs in m_freeObjects once, and is the address of no
\* live object.
C3_FreeSlotSet ==
    pc = "alive" =>
        \A i \in 1..Len(m_freeObjects) :
            LET a == m_freeObjects[i] IN
            /\ Cardinality({blk \in PoolChunks : a \in Slots(blk)}) = 1
            /\ Count(m_freeObjects, a) = 1
            /\ a \notin LiveAddrs

C3_Witness ==
    /\ pc = "alive"
    /\ Len(m_pool) = 2
    /\ last.op = "release"
    /\ LiveCount >= 2
    /\ \A blk \in PoolChunks :
          \E a \in Slots(blk) : a \in Range(m_freeObjects)

\* C4. Growth doubling: the k-th chunk allocated has 5 * 2^(k-1) slots, and
\* after n chunks the capacity of the pool is 5 * (2^n - 1), however
\* acquisitions and releases are interleaved.
C4_GrowthDoubling ==
    /\ \A k \in 1..Len(allocLog) :
          allocLog[k].size = ms_initialChunkSize * Pow2(k - 1)
    /\ pc = "alive" =>
          /\ Len(m_pool) = Len(allocLog)
          /\ Capacity = ms_initialChunkSize * (Pow2(Len(allocLog)) - 1)

C4_Witness ==
    /\ Len(allocLog) = 3
    /\ allocLog[3].size = 20
    /\ Capacity = 35
    /\ last.op = "release"

\* C5. Recycling: an acquireObject that directly follows the release of the
\* slot at address a by its last owner takes the slot at a and does not
\* grow the pool.
C5_Recycling ==
    last.op \in {"acquire", "throw", "oom"} /\ last.prev # NoAddr =>
        /\ last.op # "oom"
        /\ last.addr = last.prev
        /\ ~last.grew

C5_Witness ==
    /\ last.op = "acquire"
    /\ last.prev # NoAddr
    /\ last.addr = last.prev
    /\ m_freeObjects = <<>>
    /\ LiveCount >= 2

\* C6. Exactly-once reclamation: the address of a live handle is not in the
\* free list while an owner holds the handle, and a step inserts it, once,
\* exactly when the last owner drops the handle.
C6_StepReclaims ==
    \A e \in Live :
        LET a == e.addr
            pushed == Count(m_freeObjects', a) - Count(m_freeObjects, a)
            gone == a \notin LiveAddrs'
        IN /\ pushed = IF gone THEN 1 ELSE 0
           /\ gone => e.owners = 1

C6_ExactlyOnce ==
    /\ [](\A e \in Live : Count(m_freeObjects, e.addr) = 0)
    /\ [][C6_StepReclaims]_vars

C6_Witness ==
    /\ last.op = "release"
    /\ last.prev = last.addr
    /\ Count(m_freeObjects, last.addr) = 1
    /\ LiveCount >= 1

\* C7. Teardown check: while the pool is in use the check of the destructor
\* passes exactly when no handle is live; a destructor that ran to its end
\* found no live handle and gave every chunk back; a destructor stopped by
\* the check found a live handle and gave nothing back.
C7_TeardownCheck ==
    /\ pc = "alive" => (TeardownCheck(This) <=> handles = EmptyBag)
    /\ pc = "destroyed" =>
          /\ handles = EmptyBag
          /\ heap = {}
          /\ m_pool = <<>>
          /\ Len(deallocLog) = Len(allocLog)
    /\ pc = "aborted" =>
          /\ handles # EmptyBag
          /\ deallocLog = <<>>

C7_Witness ==
    /\ pc = "aborted"
    /\ Len(m_pool) = 3
    /\ LiveCount = 1

\* C8. Matching deallocation: the destructor deallocates the chunks once
\* each, in allocation order, each with the size it was allocated with.
C8_MatchingDeallocation ==
    pc = "destroyed" => deallocLog = allocLog

C8_Witness ==
    /\ pc = "destroyed"
    /\ Len(deallocLog) = 3
    /\ deallocLog[3].size = 20

\* C9 (as stated). A successful acquireObject that follows a constructor
\* failure returns the slot of that failure.
C9_NextAcquireReturnsFailedSlot ==
    last.op = "acquire" /\ last.pending.slot # NoAddr =>
        last.addr = last.pending.slot

\* C9 (amended). After a constructor failure the slot is not live and is
\* the back of the free list, where it was; the free list of a pool that
\* did not grow is unchanged; capacity conservation holds; and the next
\* successful acquireObject returns that slot when no handle was released
\* by its last owner in between.
C9_AfterThrow ==
    /\ last.op = "throw" =>
          /\ m_freeObjects # <<>>
          /\ Object(m_freeObjects) = last.addr
          /\ Count(m_freeObjects, last.addr) = 1
          /\ last.addr \notin LiveAddrs
          /\ Len(m_freeObjects) + LiveCount = Capacity
    /\ last.op = "acquire" /\ last.pending.slot # NoAddr
          /\ ~last.pending.released =>
          last.addr = last.pending.slot

C9_ThrowStep ==
    last'.op = "throw" =>
        /\ handles' = handles
        /\ m_freeObjects # <<>> => m_freeObjects' = m_freeObjects

C9_ConstructionFailure == []C9_AfterThrow /\ [][C9_ThrowStep]_vars

C9_Witness ==
    /\ last.op = "acquire"
    /\ last.pending.slot # NoAddr
    /\ ~last.pending.released
    /\ last.addr = last.pending.slot
    /\ LiveCount >= 2

\* C10. Out of memory: an acquireObject in which allocate fails issues no
\* handle and leaves m_pool, m_freeObjects and m_newChunkSize as they were.
C10_BadAllocStep ==
    last'.op = "oom" =>
        /\ m_pool' = m_pool
        /\ m_freeObjects' = m_freeObjects
        /\ m_newChunkSize' = m_newChunkSize
        /\ handles' = handles
        /\ heap' = heap

C10_OutOfMemory == [][C10_BadAllocStep]_vars

C10_Witness ==
    /\ last.op = "oom"
    /\ Len(m_pool) = 1
    /\ m_newChunkSize = 10
    /\ LiveCount = 5

\* C12. Growth exactly when empty: an acquireObject allocates a chunk exactly
\* when no slot is free as it starts, one chunk at most, and allocate is
\* asked for memory (and may fail) only then.  With chunks of 5 and 10: 7
\* live objects leave 8 slots free, fewer than 15 live objects leave a slot
\* free (no growth), 15 leave none (the next acquireObject grows), and the
\* third chunk has 20 slots.
C12_AcquireStep ==
    /\ last'.op \in {"acquire", "throw"} =>
          /\ Len(allocLog') = Len(allocLog) + 1 <=> m_freeObjects = <<>>
          /\ Len(allocLog') \in {Len(allocLog), Len(allocLog) + 1}
          /\ Len(m_pool') = Len(m_pool) + (Len(allocLog') - Len(allocLog))
    /\ last'.op = "oom" => m_freeObjects = <<>> /\ allocLog' = allocLog

C12_Scenario ==
    pc = "alive" =>
        /\ LiveCount >= 6 => Len(m_pool) >= 2
        /\ LiveCount >= 16 => Len(m_pool) >= 3
        /\ Len(m_pool) = 2 =>
              /\ allocLog[1].size = 5 /\ allocLog[2].size = 10
              /\ LiveCount = 7 => Len(m_freeObjects) = 8
              /\ LiveCount < 15 => m_freeObjects # <<>>
              /\ LiveCount = 15 => m_freeObjects = <<>>
        /\ Len(m_pool) = 3 => allocLog[3].size = 20

C12_GrowthWhenEmpty == []C12_Scenario /\ [][C12_AcquireStep]_vars

C12_Witness ==
    /\ last.op = "acquire"
    /\ last.grew
    /\ LiveCount = 16
    /\ Len(m_pool) = 3
    /\ Len(m_freeObjects) = 19

\* C13. Lazy growth: a newly constructed pool has no chunk, no free slot and
\* next chunk size 5, and allocate is called by acquireObject only.
C13_Fresh ==
    last.op = "none" =>
        /\ m_pool = <<>>
        /\ m_freeObjects = <<>>
        /\ m_newChunkSize = 5
        /\ allocLog = <<>>
        /\ heap = {}

C13_AllocateStep ==
    allocLog' # allocLog \/ heap' # heap =>
        last'.op \in {"acquire", "throw", "destroy"}

C13_LazyGrowth == []C13_Fresh /\ [][C13_AllocateStep]_vars

C13_Witness ==
    /\ last.op = "acquire"
    /\ last.grew
    /\ Len(allocLog) = 1
    /\ LiveCount = 1
    /\ deallocLog = <<>>

\* C14. LIFO slot selection: acquireObject issues the back of m_freeObjects
\* and the deleter appends at the back, so slots released in a row are
\* issued again in reverse order; the first acquireObject after a growth
\* issues the highest address of the new chunk.
C14_Order ==
    /\ \A j \in 1..Len(lifo.issued) :
          lifo.issued[j] = lifo.released[Len(lifo.released) - j + 1]
    /\ last.op = "acquire" /\ last.grew =>
          last.addr = Back(allocLog).base + Back(allocLog).size - 1

C14_Step ==
    /\ last'.op = "acquire" /\ m_freeObjects # <<>> =>
          /\ last'.addr = Back(m_freeObjects)
          /\ m_freeObjects' = PopBack(m_freeObjects)
    /\ last'.op = "release" =>
          m_freeObjects' = Append(m_freeObjects, last'.addr)

C14_Lifo == []C14_Order /\ [][C14_Step]_vars

C14_Witness ==
    /\ Len(lifo.released) = 2
    /\ Len(lifo.issued) = 2
    /\ lifo.released[1] # lifo.released[2]
    /\ lifo.issued = <<lifo.released[2], lifo.released[1]>>
    /\ LiveCount >= 3

\* C15. Chunks are freed by the destructor only: a copy or release of a
\* handle and an acquireObject that finds a free slot leave m_pool and
\* m_newChunkSize as they were; deallocate is called by the destructor only;
\* and while the pool is in use m_pool changes by appending only.
C15_Step ==
    /\ last'.op \in {"copy", "drop", "release"} =>
          m_pool' = m_pool /\ m_newChunkSize' = m_newChunkSize
    /\ last'.op \in {"acquire", "throw"} /\ m_freeObjects # <<>> =>
          m_pool' = m_pool /\ m_newChunkSize' = m_newChunkSize
    /\ deallocLog' # deallocLog => last'.op = "destroy"
    /\ ~(heap \subseteq heap') => last'.op = "destroy"
    /\ pc' = "alive" =>
          /\ Len(m_pool') >= Len(m_pool)
          /\ SubSeq(m_pool', 1, Len(m_pool)) = m_pool

C15_ChunksKept == [][C15_Step]_vars

C15_Witness ==
    /\ last.op = "release"
    /\ Len(m_pool) = 3
    /\ m_newChunkSize = 40
    /\ deallocLog = <<>>

\* ---- the claims about moves, under SpecMove -----------------------------
\* Slots of the chunks in m_pool of pool i.
PoolCapacity(i) ==
    LET chunks == {blk \in heap : blk.base \in Range(pools[i].m_pool)}
    IN SumOver(chunks, [blk \in chunks |-> blk.size])

\* C11. Move semantics: after Q is move-constructed from P, Q holds the
\* chunk sequence, free slots and next chunk size P held before, and P has
\* no chunks, no free slots and next chunk size 5.
C11_MoveSemantics ==
    last.op = "moveConstruct" =>
        /\ Members(pools[last.pool]) = Members(last.before)
        /\ pools[Other(last.pool)].m_pool = <<>>
        /\ pools[Other(last.pool)].m_freeObjects = <<>>
        /\ pools[Other(last.pool)].m_newChunkSize = ms_initialChunkSize

\* C16. Release after move routes to the owning pool: when a handle issued
\* by P is released after P was moved into Q, its address is pushed onto
\* the free slots of the pool that holds its chunk; the free slots of each
\* pool lie in its own chunks; and once no handle is left the free slots of
\* each pool are all of its slots and its teardown check passes.
C16_ReleaseAfterMove ==
    last.op = "release" /\ last.stale =>
        /\ \A i \in Owners(last.addr) :
              last.addr \in Range(pools[i].m_freeObjects)
        /\ \A i \in PoolIds : pools[i].life = "alive" =>
              /\ \A a \in Range(pools[i].m_freeObjects) : i \in Owners(a)
              /\ handles = EmptyBag =>
                    /\ Len(pools[i].m_freeObjects) = PoolCapacity(i)
                    /\ TeardownCheck(Members(pools[i]))

\* C17. A moved-from pool is safely reusable: a pool that was moved from
\* after it grew, with no handle outstanding, allocates a first chunk of
\* size 5 when it is used again, and its destruction with no live handle
\* passes the teardown check and deallocates each chunk with the size it
\* was allocated with.
C17_MovedFromReusable ==
    /\ /\ last.op = "acquire"
       /\ last.grew
       /\ pools[last.pool].history = "movedFrom"
       /\ Len(pools[last.pool].m_pool) = 1
       => Back(allocLog).size = ms_initialChunkSize
    /\ /\ last.op = "destroy"
       /\ pools[last.pool].history = "movedFrom"
       /\ handles = EmptyBag
       => /\ pools[last.pool].life = "destroyed"
          /\ \A k \in 1..Len(deallocLog) : deallocLog[k] \in Range(allocLog)

\* C18. No chunk is leaked or double-freed across moves: once every pool
\* is destroyed and no handle is live, every chunk allocated was
\* deallocated exactly once.
C18_NoLeakAcrossMoves ==
    /\ \A i \in PoolIds : pools[i].life = "destroyed"
    /\ handles = EmptyBag
    => /\ heap = {}
       /\ Len(deallocLog) = Len(allocLog)
       /\ \A blk \in Range(allocLog) :
             Count(deallocLog, blk) = Count(allocLog, blk)

====
